---- MODULE Spec2Model ----
(***************************************************************************)
(* Model of src/main.c: three FreeRTOS tasks (Task1 generator, Task2       *)
(* receiver, Task3 supervisor) sharing a queue of length 1 that carries    *)
(* pointers to heap-allocated dado_t, an event group with two bits, the    *)
(* heap, and the task watchdog.                                            *)
(*                                                                         *)
(* Each action holds one access to shared state (queue, event group,       *)
(* heap) together with the task-local statements around it, so every       *)
(* interleaving of the shared accesses of the three tasks is explored.     *)
(*                                                                         *)
(* The scheduler promises nothing about how long a running task takes, so  *)
(* the model has no clock: a delay ends, and a timed wait whose condition  *)
(* is not met times out, at any later step.  The task watchdog is          *)
(* modelled by what the tasks do to it: fed[t] records that task t called  *)
(* esp_task_wdt_reset in its current loop iteration.  What the watchdog    *)
(* does on expiry (panic and restart) is in the ESP-IDF library, outside   *)
(* src/, and is not modelled.                                              *)
(***************************************************************************)
EXTENDS Integers, Sequences, FiniteSets, TLC

\* ---------------------------------------------------------------- bounds
\* Number of heap blocks that malloc can hand out.
MaxAddr == 3
\* Largest id the generator creates in the model (seq is capped here).
MaxSeq == 3
\* The ghost count of consecutive timeouts saturates here.
MaxConsec == 7

\* ------------------------------------------------------ program constants
BIT_TASK1_OK == 1
BIT_TASK2_OK == 2
\* xQueueCreate(1, sizeof(dado_t *))
QUEUE_LENGTH == 1
\* if (timeout == 3)
ALERT_AT == 3
\* if (timeout >= 5)
RECOVER_AT == 5

NULL == 0
Addr == 1..MaxAddr
Tasks == {1, 2, 3}
WaitMask == {BIT_TASK1_OK, BIT_TASK2_OK}
\* contents of a heap block that holds no dado_t
Zero == [id |-> 0, valor |-> 0]

VARIABLES
    boot,            \* app_main: "start", "running", "restart"
    hFila, hEvent,   \* app_main: the handle is not NULL (the object exists)
    fila,            \* the queue: sequence of pointers, at most QUEUE_LENGTH
    flags,           \* event_supervisor: set of bits that are set
    mem,             \* heap contents, Addr -> dado_t
    live,            \* heap blocks allocated and not freed
    pc1, seq, dados,                       \* Task1
    pc2, dados_recebidos, tmp, timeout,    \* Task2
    pc3, bits,                             \* Task3
    fed,             \* watchdog: task called esp_task_wdt_reset in this cycle
    log1, log2, log3, \* ghost: log lines printed in the task's current cycle
    created,         \* ghost: number of dado_t that Task1 has created
    consec,          \* ghost: receive timeouts since the last success or reset
    uaf,             \* ghost: tasks that in their current cycle read or freed
                     \* a freed block
    txSignals,       \* ghost: BIT_TASK1_OK signals in Task1's current cycle
    okSignals,       \* ghost: BIT_TASK2_OK signals in Task2's current cycle
    sinceObs,        \* ghost: bits signalled since the last observation
    expected,        \* ghost: sinceObs when the last observation returned
    sendRes,         \* ghost: xQueueSend in Task1's current cycle:
                     \* "none", "ok", "full"
    recvRes,         \* ghost: xQueueReceive in Task2's current cycle:
                     \* "none", "ok", "timeout"
    lastSent,        \* ghost: id of the last item the queue accepted (0: none)
    lastDrop,        \* ghost: id of the last item the queue rejected (0: none)
    lastRecv         \* ghost: id of the last item Task2 received (0: none)

vars == <<boot, fila, flags, mem, live, pc1, seq, dados, pc2, dados_recebidos,
          tmp, timeout, pc3, bits, fed, log1, log2, log3, consec,
          uaf, okSignals, sinceObs, expected, created, hFila, hEvent,
          sendRes, recvRes, lastSent, lastRecv, txSignals, lastDrop>>

mainvars == <<boot, hFila, hEvent>>
shared == <<fila, flags, mem, live>>
t1vars == <<pc1, seq, dados, log1, created, sendRes, lastSent, lastDrop,
            txSignals>>
t2vars == <<pc2, dados_recebidos, tmp, timeout, log2, consec, okSignals,
            recvRes, lastRecv>>
t3vars == <<pc3, bits, log3>>

Init ==
    /\ boot = "start"
    /\ hFila = FALSE /\ hEvent = FALSE
    /\ fila = <<>>
    /\ flags = {}
    /\ mem = [a \in Addr |-> Zero]
    /\ live = {}
    /\ pc1 = "malloc" /\ seq = 1 /\ dados = NULL
    /\ pc2 = "recv" /\ dados_recebidos = NULL /\ tmp = NULL /\ timeout = 0
    /\ pc3 = "waitbits" /\ bits = {}
    /\ fed = [t \in Tasks |-> FALSE]
    /\ log1 = <<>> /\ log2 = <<>> /\ log3 = <<>>
    /\ consec = 0
    /\ uaf = {}
    /\ okSignals = 0
    /\ sinceObs = {}
    /\ expected = {}
    /\ created = 0
    /\ sendRes = "none" /\ recvRes = "none"
    /\ lastSent = 0 /\ lastRecv = 0
    /\ txSignals = 0
    /\ lastDrop = 0

\* ------------------------------------------------------------ primitives
Min(a, b) == IF a < b THEN a ELSE b

Line(tag, a, b) == [tag |-> tag, a |-> a, b |-> b]

\* malloc: NULL (exhaustion can happen at any call), or the first free block
MallocResults ==
    {NULL} \cup (IF Addr \ live = {} THEN {}
                ELSE {CHOOSE a \in Addr \ live : \A b \in Addr \ live : a <= b})

\* free(p): the block leaves the heap; freeing a block that is not allocated
\* is undefined behaviour, recorded in uaf for the task t that did it
Free(t, p) ==
    /\ live' = live \ {p}
    /\ mem' = [mem EXCEPT ![p] = Zero]
    /\ uaf' = IF p \in live THEN uaf ELSE uaf \cup {t}

\* the values a read through p can yield: the block's contents, or, when the
\* block has been freed, whatever the heap holds there by then
ReadResults(p) ==
    IF p \in live THEN {mem[p]}
    ELSE {[id |-> i, valor |-> v] : i \in {0, seq - 1}, v \in {0, seq - 1}}

\* mutant of xQueueSend: the queue has no capacity limit
xQueueSend_Unbounded(q, p) == [ok |-> TRUE, q |-> Append(q, p)]

\* mutant of xQueueSend: a full queue is overwritten (as xQueueOverwrite does)
xQueueSend_Overwrite(q, p) ==
    IF Len(q) < QUEUE_LENGTH THEN [ok |-> TRUE, q |-> Append(q, p)]
    ELSE [ok |-> TRUE, q |-> <<p>>]

\* xQueueSend(fila, &dados, 0): never blocks; pdTRUE iff there is room
xQueueSend(q, p) ==
    IF Len(q) < QUEUE_LENGTH THEN [ok |-> TRUE, q |-> Append(q, p)]
    ELSE [ok |-> FALSE, q |-> q]

\* xQueueReset(fila): the queue forgets its contents; the pointers it held
\* are not freed
xQueueReset(q) == <<>>

\* mutant of ClearOnExit: xClearOnExit = pdFALSE
ClearOnExit_Keep(f) == f

\* the bits that xEventGroupWaitBits leaves set on return
\* (xClearOnExit = pdTRUE)
ClearOnExit(f) == f \ WaitMask

\* mutant of xEventGroupSetBits: the bits are assigned, not or-ed in
xEventGroupSetBits_Assign(b) ==
    IF pc3 = "waiting"
    THEN /\ bits' = {b}
         /\ flags' = ClearOnExit({b})
         /\ pc3' = "classify"
         /\ expected' = sinceObs \cup {b}
         /\ sinceObs' = {}
    ELSE /\ flags' = {b}
         /\ sinceObs' = sinceObs \cup {b}
         /\ UNCHANGED <<bits, pc3, expected>>

\* xEventGroupSetBits(event_supervisor, b).  When Task3 is blocked in
\* xEventGroupWaitBits the setter hands it the bits and, because of
\* xClearOnExit, clears the waited-for bits in the same critical section.
xEventGroupSetBits(b) ==
    IF pc3 = "waiting"
    THEN /\ bits' = flags \cup {b}
         /\ flags' = ClearOnExit(flags \cup {b})
         /\ pc3' = "classify"
         /\ expected' = sinceObs \cup {b}
         /\ sinceObs' = {}
    ELSE /\ flags' = flags \cup {b}
         /\ sinceObs' = sinceObs \cup {b}
         /\ UNCHANGED <<bits, pc3, expected>>

\* esp_task_wdt_reset() called by task t
WdtReset(t) == fed' = [fed EXCEPT ![t] = TRUE]

\* ------------------------------------------------------------- app_main
\* mutant of CreationFailed: && in place of ||
CreationFailed_Both(q, e) == ~q /\ ~e

\* if (fila == NULL || event_supervisor == NULL), q and e telling whether
\* xQueueCreate and xEventGroupCreate returned an object
CreationFailed(q, e) == ~q \/ ~e

\* both objects are created (either creation can fail), the check passes,
\* the three tasks are created
AppMainOk ==
    /\ boot = "start"
    /\ \E q, e \in BOOLEAN :
          /\ ~CreationFailed(q, e)
          /\ hFila' = q /\ hEvent' = e
    /\ boot' = "running"
    /\ UNCHANGED <<shared, t1vars, t2vars, t3vars, fed, uaf, sinceObs,
                   expected>>

\* xQueueCreate or xEventGroupCreate returned NULL: esp_restart(), which
\* does not return, so no task is created
AppMainFail ==
    /\ boot = "start"
    /\ \E q, e \in BOOLEAN :
          /\ CreationFailed(q, e)
          /\ hFila' = q /\ hEvent' = e
    /\ boot' = "restart"
    /\ UNCHANGED <<shared, t1vars, t2vars, t3vars, fed, uaf, sinceObs,
                   expected>>

\* the device reboots and app_main runs again
Restart ==
    /\ boot = "restart"
    /\ boot' = "start"
    /\ hFila' = FALSE /\ hEvent' = FALSE
    /\ UNCHANGED <<shared, t1vars, t2vars, t3vars, fed, uaf, sinceObs,
                   expected>>

\* ---------------------------------------------------------------- Task1
\* malloc failed: log, vTaskDelay, continue (no esp_task_wdt_reset)
T1MallocFail ==
    /\ boot = "running" /\ pc1 = "malloc"
    /\ NULL \in MallocResults
    /\ dados' = NULL
    /\ log1' = <<Line("ERRO", 0, 0)>>
    /\ pc1' = "delay"
    /\ UNCHANGED <<mainvars, shared, seq, created, sendRes, lastSent,
                   txSignals, lastDrop, t2vars, t3vars, fed, uaf, sinceObs,
                   expected>>

\* mutant of NextId: dados->id = ++seq
NextId_PreInc(n) == [id |-> n + 1, seq |-> n + 1]

\* the id the next dado_t gets, and seq after it: dados->id = seq++
NextId(n) == [id |-> n, seq |-> n + 1]

\* malloc succeeded: dados->id = seq++; dados->valor = dados->id
T1Malloc ==
    /\ boot = "running" /\ pc1 = "malloc"
    /\ seq <= MaxSeq
    /\ \E p \in MallocResults \ {NULL} :
          /\ dados' = p
          /\ live' = live \cup {p}
          /\ mem' = [mem EXCEPT ![p] = [id |-> NextId(seq).id,
                                        valor |-> NextId(seq).id]]
    /\ seq' = NextId(seq).seq
    /\ created' = created + 1
    /\ pc1' = "send"
    /\ UNCHANGED <<mainvars, fila, flags, log1, sendRes, lastSent, txSignals,
                   lastDrop, t2vars, t3vars, fed, uaf, sinceObs, expected>>

\* malloc succeeded, for the items after the MaxSeq-th: their ids are not
\* told apart, seq stays at MaxSeq + 1 (used by the specifications that
\* follow the loops forever)
T1MallocSat ==
    /\ boot = "running" /\ pc1 = "malloc"
    /\ seq > MaxSeq
    /\ \E p \in MallocResults \ {NULL} :
          /\ dados' = p
          /\ live' = live \cup {p}
          /\ mem' = [mem EXCEPT ![p] = [id |-> seq, valor |-> seq]]
    /\ pc1' = "send"
    /\ UNCHANGED <<mainvars, fila, flags, seq, created, log1, sendRes,
                   lastSent, txSignals, lastDrop, t2vars, t3vars, fed, uaf,
                   sinceObs, expected>>

\* if (xQueueSend(fila, &dados, 0) != pdTRUE)
T1Send ==
    /\ boot = "running" /\ pc1 = "send"
    /\ fila' = xQueueSend(fila, dados).q
    /\ pc1' = IF xQueueSend(fila, dados).ok THEN "signal" ELSE "drop"
    /\ sendRes' = IF xQueueSend(fila, dados).ok THEN "ok" ELSE "full"
    /\ lastSent' = IF fila' # fila THEN mem[dados].id ELSE lastSent
    /\ lastDrop' = IF fila' # fila THEN lastDrop ELSE mem[dados].id
    /\ UNCHANGED <<mainvars, flags, mem, live, seq, dados, log1, created,
                   txSignals, t2vars, t3vars, fed, uaf, sinceObs, expected>>

\* mutant of T1Drop: the rejected item is kept and sent again
T1Drop_Retry ==
    /\ boot = "running" /\ pc1 = "drop"
    /\ \E d \in ReadResults(dados) : log1' = <<Line("FILA", d.valor, d.id)>>
    /\ pc1' = "send"
    /\ UNCHANGED <<mainvars, shared, seq, dados, created, sendRes, lastSent,
                   lastDrop, txSignals, t2vars, t3vars, fed, uaf, sinceObs,
                   expected>>

\* mutant of T1Drop: the bit is set after the if/else, on the drop too
T1Drop_Signals ==
    /\ boot = "running" /\ pc1 = "drop"
    /\ \E d \in ReadResults(dados) : log1' = <<Line("FILA", d.valor, d.id)>>
    /\ Free(1, dados)
    /\ dados' = NULL
    /\ xEventGroupSetBits(BIT_TASK1_OK)
    /\ txSignals' = txSignals + 1
    /\ pc1' = "wdt"
    /\ UNCHANGED <<mainvars, fila, seq, created, sendRes, lastSent, lastDrop,
                   t2vars, log3, fed>>

\* queue full: printf of the drop, free(dados); dados is dead from here on
T1Drop ==
    /\ boot = "running" /\ pc1 = "drop"
    /\ \E d \in ReadResults(dados) : log1' = <<Line("FILA", d.valor, d.id)>>
    /\ Free(1, dados)
    /\ dados' = NULL
    /\ pc1' = "wdt"
    /\ UNCHANGED <<mainvars, fila, flags, seq, created, sendRes, lastSent,
                   txSignals, lastDrop, t2vars, t3vars, fed, sinceObs,
                   expected>>

\* sent: xEventGroupSetBits(event_supervisor, BIT_TASK1_OK)
T1Signal ==
    /\ boot = "running" /\ pc1 = "signal"
    /\ xEventGroupSetBits(BIT_TASK1_OK)
    /\ txSignals' = txSignals + 1
    /\ pc1' = "logtx"
    /\ UNCHANGED <<mainvars, fila, mem, live, seq, dados, log1, created,
                   sendRes, lastSent, lastDrop, t2vars, log3, fed, uaf>>

\* sent: printf of dados->valor and dados->id, after the send; dados is
\* dead from here on
T1LogTx ==
    /\ boot = "running" /\ pc1 = "logtx"
    /\ \E d \in ReadResults(dados) : log1' = <<Line("TX", d.valor, d.id)>>
    /\ uaf' = IF dados \in live THEN uaf ELSE uaf \cup {1}
    /\ dados' = NULL
    /\ pc1' = "wdt"
    /\ UNCHANGED <<mainvars, shared, seq, created, sendRes, lastSent,
                   txSignals, lastDrop, t2vars, t3vars, fed, sinceObs,
                   expected>>

\* esp_task_wdt_reset(); vTaskDelay(pdMS_TO_TICKS(1000))
T1Wdt ==
    /\ boot = "running" /\ pc1 = "wdt"
    /\ WdtReset(1)
    /\ pc1' = "delay"
    /\ UNCHANGED <<mainvars, shared, seq, dados, log1, created, sendRes,
                   lastSent, txSignals, lastDrop, t2vars, t3vars, uaf,
                   sinceObs, expected>>

\* the delay of 1000 ms is over: next iteration of for(;;)
T1Wake ==
    /\ boot = "running" /\ pc1 = "delay"
    /\ pc1' = "malloc"
    /\ log1' = <<>>
    /\ sendRes' = "none"
    /\ txSignals' = 0
    /\ fed' = [fed EXCEPT ![1] = FALSE]
    /\ uaf' = uaf \ {1}
    /\ UNCHANGED <<mainvars, shared, seq, dados, created, lastSent, lastDrop,
                   t2vars, t3vars, sinceObs, expected>>

\* ---------------------------------------------------------------- Task2
\* mutant of ShouldAlert: >= in place of ==
ShouldAlert_AtLeast(n) == n >= ALERT_AT

\* if (timeout == 3): the ALERTA line
ShouldAlert(n) == n = ALERT_AT

\* mutant of ShouldRecover: > in place of >=
ShouldRecover_Late(n) == n > RECOVER_AT

\* if (timeout >= 5): the recovery
ShouldRecover(n) == n >= RECOVER_AT

\* mutant of T2RecvOk: the item is read but left in the queue (xQueuePeek)
T2RecvOk_Peek ==
    /\ boot = "running" /\ pc2 = "recv"
    /\ fila # <<>>
    /\ dados_recebidos' = Head(fila)
    /\ pc2' = "malloc"
    /\ consec' = 0
    /\ recvRes' = "ok"
    /\ lastRecv' = mem[Head(fila)].id
    /\ UNCHANGED <<mainvars, shared, t1vars, tmp, timeout, log2, okSignals,
                   t3vars, fed, uaf, sinceObs, expected>>

\* xQueueReceive(fila, &dados_recebidos, pdMS_TO_TICKS(1000)) == pdTRUE
T2RecvOk ==
    /\ boot = "running" /\ pc2 = "recv"
    /\ fila # <<>>
    /\ dados_recebidos' = Head(fila)
    /\ fila' = Tail(fila)
    /\ pc2' = "malloc"
    /\ consec' = 0
    /\ recvRes' = "ok"
    /\ lastRecv' = mem[Head(fila)].id
    /\ UNCHANGED <<mainvars, flags, mem, live, t1vars, tmp, timeout, log2,
                   okSignals, t3vars, fed, uaf, sinceObs, expected>>

\* malloc of the working copy failed: the ERRO line, no RX line
T2MallocFail ==
    /\ boot = "running" /\ pc2 = "malloc"
    /\ NULL \in MallocResults
    /\ tmp' = NULL
    /\ log2' = Append(log2, Line("ERRO", 0, 0))
    /\ pc2' = "free_orig"
    /\ UNCHANGED <<mainvars, shared, t1vars, dados_recebidos, timeout, consec,
                   okSignals, recvRes, lastRecv, t3vars, fed, uaf, sinceObs,
                   expected>>

\* malloc of the working copy succeeded: *tmp = *dados_recebidos; the RX line
T2Malloc ==
    /\ boot = "running" /\ pc2 = "malloc"
    /\ \E p \in MallocResults \ {NULL} :
        \E d \in ReadResults(dados_recebidos) :
          /\ tmp' = p
          /\ live' = live \cup {p}
          /\ mem' = [mem EXCEPT ![p] = d]
          /\ log2' = Append(log2, Line("RX", d.valor, d.id))
    /\ uaf' = IF dados_recebidos \in live THEN uaf ELSE uaf \cup {2}
    /\ pc2' = "free_tmp"
    /\ UNCHANGED <<mainvars, fila, flags, t1vars, dados_recebidos, timeout,
                   consec, okSignals, recvRes, lastRecv, t3vars, fed,
                   sinceObs, expected>>

\* free(tmp)
T2FreeTmp ==
    /\ boot = "running" /\ pc2 = "free_tmp"
    /\ Free(2, tmp)
    /\ tmp' = NULL
    /\ pc2' = "free_orig"
    /\ UNCHANGED <<mainvars, fila, flags, t1vars, dados_recebidos, timeout,
                   log2, consec, okSignals, recvRes, lastRecv, t3vars, fed,
                   sinceObs, expected>>

\* if (dados_recebidos != NULL) { free(dados_recebidos);
\* dados_recebidos = NULL; }
T2FreeOrig ==
    /\ boot = "running" /\ pc2 = "free_orig"
    /\ IF dados_recebidos # NULL
       THEN Free(2, dados_recebidos)
       ELSE UNCHANGED <<live, mem, uaf>>
    /\ dados_recebidos' = NULL
    /\ pc2' = "signal"
    /\ UNCHANGED <<mainvars, fila, flags, t1vars, tmp, timeout, log2, consec,
                   okSignals, recvRes, lastRecv, t3vars, fed, sinceObs,
                   expected>>

\* xEventGroupSetBits(event_supervisor, BIT_TASK2_OK); timeout = 0;
\* esp_task_wdt_reset()
T2Signal ==
    /\ boot = "running" /\ pc2 = "signal"
    /\ xEventGroupSetBits(BIT_TASK2_OK)
    /\ okSignals' = okSignals + 1
    /\ timeout' = 0
    /\ WdtReset(2)
    /\ pc2' = "loop"
    /\ UNCHANGED <<mainvars, fila, mem, live, t1vars, dados_recebidos, tmp,
                   log2, consec, recvRes, lastRecv, log3, uaf>>

\* the queue stayed empty for 1000 ms: xQueueReceive returns pdFALSE;
\* timeout++, the FILA line, the ALERTA line at 3
T2RecvTimeout ==
    /\ boot = "running" /\ pc2 = "recv"
    /\ fila = <<>>
    /\ timeout' = timeout + 1
    /\ consec' = Min(consec + 1, MaxConsec)
    /\ log2' = <<Line("FILA", timeout + 1, 0)>>
                \o (IF ShouldAlert(timeout + 1)
                    THEN <<Line("ALERTA", 0, 0)>> ELSE <<>>)
    /\ pc2' = IF ShouldRecover(timeout + 1) THEN "reset" ELSE "loop"
    /\ recvRes' = "timeout"
    /\ UNCHANGED <<mainvars, shared, t1vars, dados_recebidos, tmp, okSignals,
                   lastRecv, t3vars, fed, uaf, sinceObs, expected>>

\* the RECUPERACAO line; if (fila) xQueueReset(fila); timeout = 0
T2Reset ==
    /\ boot = "running" /\ pc2 = "reset"
    /\ log2' = Append(log2, Line("RECUPERACAO", 0, 0))
    /\ fila' = xQueueReset(fila)
    /\ timeout' = 0
    /\ consec' = 0
    /\ pc2' = "loop"
    /\ UNCHANGED <<mainvars, flags, mem, live, t1vars, dados_recebidos, tmp,
                   okSignals, recvRes, lastRecv, t3vars, fed, uaf, sinceObs,
                   expected>>

\* end of the body of for(;;): the next iteration calls xQueueReceive
T2Loop ==
    /\ boot = "running" /\ pc2 = "loop"
    /\ pc2' = "recv"
    /\ log2' = <<>>
    /\ okSignals' = 0
    /\ recvRes' = "none"
    /\ fed' = [fed EXCEPT ![2] = FALSE]
    /\ uaf' = uaf \ {2}
    /\ UNCHANGED <<mainvars, shared, t1vars, dados_recebidos, tmp, timeout,
                   consec, lastRecv, t3vars, sinceObs, expected>>

\* ---------------------------------------------------------------- Task3
\* mutant of Classify: the single-bit tests come before the two-bit test
Classify_SingleFirst(b) ==
    IF BIT_TASK1_OK \in b THEN "SUP_TASK1"
    ELSE IF BIT_TASK2_OK \in b THEN "SUP_TASK2"
    ELSE IF BIT_TASK1_OK \in b /\ BIT_TASK2_OK \in b THEN "SUP_OK"
    ELSE "FALHA"

\* the if / else-if chain on bits
Classify(b) ==
    IF BIT_TASK1_OK \in b /\ BIT_TASK2_OK \in b THEN "SUP_OK"
    ELSE IF BIT_TASK1_OK \in b THEN "SUP_TASK1"
    ELSE IF BIT_TASK2_OK \in b THEN "SUP_TASK2"
    ELSE "FALHA"

\* xEventGroupWaitBits is called: returns at once if a waited-for bit is
\* set (xWaitForAllBits = pdFALSE), otherwise blocks for up to 2000 ms
T3WaitBits ==
    /\ boot = "running" /\ pc3 = "waitbits"
    /\ IF flags \cap WaitMask # {}
       THEN /\ bits' = flags
            /\ flags' = ClearOnExit(flags)
            /\ expected' = sinceObs
            /\ sinceObs' = {}
            /\ pc3' = "classify"
       ELSE /\ pc3' = "waiting"
            /\ UNCHANGED <<bits, flags, expected, sinceObs>>
    /\ UNCHANGED <<mainvars, fila, mem, live, t1vars, t2vars, log3, fed, uaf>>

\* mutant of T3WaitTimeout: the wait has no timeout (portMAX_DELAY)
T3WaitTimeout_Never ==
    /\ boot = "running" /\ pc3 = "waiting"
    /\ FALSE
    /\ UNCHANGED vars

\* no waited-for bit was set within 2000 ms: the current bits are returned
T3WaitTimeout ==
    /\ boot = "running" /\ pc3 = "waiting"
    /\ bits' = flags
    /\ flags' = IF flags \cap WaitMask # {} THEN ClearOnExit(flags) ELSE flags
    /\ expected' = sinceObs
    /\ sinceObs' = {}
    /\ pc3' = "classify"
    /\ UNCHANGED <<mainvars, fila, mem, live, t1vars, t2vars, log3, fed, uaf>>

\* mutant of T3Classify: on FALHA the Supervisor resets the queue itself
T3Classify_Resets ==
    /\ boot = "running" /\ pc3 = "classify"
    /\ log3' = <<Line(Classify(bits), 0, 0)>>
    /\ fila' = IF Classify(bits) = "FALHA" THEN xQueueReset(fila) ELSE fila
    /\ bits' = {}
    /\ expected' = {}
    /\ WdtReset(3)
    /\ pc3' = "delay"
    /\ UNCHANGED <<mainvars, flags, mem, live, t1vars, t2vars, uaf, sinceObs>>

\* the SUP / FALHA line; esp_task_wdt_reset(); vTaskDelay(pdMS_TO_TICKS(2000));
\* bits is dead from here on
T3Classify ==
    /\ boot = "running" /\ pc3 = "classify"
    /\ log3' = <<Line(Classify(bits), 0, 0)>>
    /\ bits' = {}
    /\ expected' = {}
    /\ WdtReset(3)
    /\ pc3' = "delay"
    /\ UNCHANGED <<mainvars, shared, t1vars, t2vars, uaf, sinceObs>>

\* the delay of 2000 ms is over: next iteration of for(;;)
T3Wake ==
    /\ boot = "running" /\ pc3 = "delay"
    /\ pc3' = "waitbits"
    /\ log3' = <<>>
    /\ fed' = [fed EXCEPT ![3] = FALSE]
    /\ UNCHANGED <<mainvars, shared, t1vars, t2vars, bits, uaf, sinceObs,
                   expected>>

Next ==
    \/ AppMainOk \/ AppMainFail \/ Restart
    \/ T1MallocFail \/ T1Malloc \/ T1Send \/ T1Drop \/ T1Signal
    \/ T1LogTx \/ T1Wdt \/ T1Wake
    \/ T2RecvOk \/ T2MallocFail \/ T2Malloc \/ T2FreeTmp \/ T2FreeOrig
    \/ T2Signal \/ T2RecvTimeout \/ T2Reset \/ T2Loop
    \/ T3WaitBits \/ T3WaitTimeout \/ T3Classify \/ T3Wake

Spec == Init /\ [][Next]_vars

\* the steps of each task
Task1Step ==
    \/ T1MallocFail \/ T1Malloc \/ T1Send \/ T1Drop \/ T1Signal
    \/ T1LogTx \/ T1Wdt \/ T1Wake

Task2Step ==
    \/ T2RecvOk \/ T2MallocFail \/ T2Malloc \/ T2FreeTmp \/ T2FreeOrig
    \/ T2Signal \/ T2RecvTimeout \/ T2Reset \/ T2Loop

Task3Step == T3WaitBits \/ T3WaitTimeout \/ T3Classify \/ T3Wake

\* The three tasks have the same priority (xTaskCreate with priority 5) and
\* FreeRTOS time-slices ready tasks of equal priority, so a task that can
\* take a step eventually takes one; every delay and every timed wait ends.
FairSpec ==
    /\ Spec
    /\ WF_vars(Task1Step)
    /\ WF_vars(Task2Step)
    /\ WF_vars(Task3Step)

\* Task1 and Task2 alone, followed forever: Task1 goes on allocating after
\* the MaxSeq-th item.  Task3 is left out: its steps change nothing that
\* Task1 or Task2 reads (C18), and without it xEventGroupSetBits only
\* accumulates bits.
Task1Live == Task1Step \/ T1MallocSat

Next12 ==
    \/ AppMainOk \/ AppMainFail \/ Restart
    \/ Task1Live \/ Task2Step

\* weak fairness of Task1 and Task2
FairSpec12 ==
    /\ Init /\ [][Next12]_vars
    /\ WF_vars(Task1Live)
    /\ WF_vars(Task2Step)

\* ============================================================== claims
HasLine(lg, tag) == \E i \in 1..Len(lg) : lg[i].tag = tag

\* C1: a try_send succeeds iff the queue was empty just before the call;
\* after a success exactly the item just sent is in the queue; after a
\* rejection the queue and the item it holds are as they were.
C1_TrySend ==
    [][(pc1 = "send" /\ pc1' # "send") =>
         /\ (pc1' = "signal") <=> (fila = <<>>)
         /\ (pc1' = "signal") => fila' = <<dados>>
         /\ (pc1' # "signal") =>
               /\ pc1' = "drop"
               /\ fila' = fila
               /\ mem'[Head(fila)] = mem[Head(fila)]
               /\ (Head(fila) \in live) = (Head(fila) \in live')]_vars

\* a send has just been rejected while an earlier item sits in the queue
C1_Witness ==
    pc1 = "drop" /\ Len(fila) = 1 /\ Head(fila) # dados /\ Head(fila) \in live

\* C2: after a successful send Task1 no longer touches the item, so no task
\* reads or frees a block that another task has freed.
C2_NoAccessAfterTransfer == uaf = {}

\* the blocks some task or the queue is responsible for
Owned ==
    (IF pc1 \in {"send", "drop"} THEN {dados} ELSE {})
    \cup {fila[i] : i \in 1..Len(fila)}
    \cup (IF pc2 \in {"malloc", "free_tmp", "free_orig"}
          THEN {dados_recebidos} ELSE {})
    \cup (IF pc2 = "free_tmp" THEN {tmp} ELSE {})

\* C3: the recovery reset destroys the item the queue holds: no allocated
\* block is left that neither Task1, the queue nor Task2 owns.
C3_ResetLeaksNothing == live \subseteq Owned

\* C4: every loop iteration of every task calls esp_task_wdt_reset,
\* Task2's timed-out and recovering iterations included.  (Task1's cycle
\* whose allocation failed is the subject of C5 and is left out here.)
C4_EveryIterationReports ==
    /\ (pc1 = "delay" /\ log1 # <<Line("ERRO", 0, 0)>>) => fed[1]
    /\ pc2 = "loop" => fed[2]
    /\ pc3 = "delay" => fed[3]

\* C5: whatever the outcome of its cycle (sent, dropped, allocation
\* failed), Task1 calls esp_task_wdt_reset before it suspends in vTaskDelay.
C5_GeneratorReportsBeforeDelay == pc1 = "delay" => fed[1]

\* C6: the k-th dado_t that Task1 creates has id k and valor k, whatever
\* happened to the earlier ones (sent, dropped) and however many
\* allocations failed in between.
C6_SequentialIds ==
    /\ pc1 \in {"send", "drop"} =>
          mem[dados] = [id |-> created, valor |-> created]
    /\ seq = created + 1

\* item 1 was sent, item 2 was not (it was dropped), and the next item
\* created is item 3
C6_Witness ==
    /\ pc1 = "send" /\ mem[dados].id = 3
    /\ lastSent = 1

\* C7: the event group holds exactly the bits signalled since the last
\* observation returned, and an observation returns exactly those bits:
\* none is reported twice, none is lost.
C7_ObserveAndClear ==
    /\ flags = sinceObs
    /\ pc3 = "classify" => bits = expected

\* both tasks signalled, the observation returned both bits and left none
C7_Witness == pc3 = "classify" /\ bits = WaitMask /\ flags = {}

\* C8: the ALERTA line is printed at the 3rd consecutive timeout and at no
\* other, and the recovery runs at the 5th and at no other.
C8_EscalationCounts ==
    /\ HasLine(log2, "ALERTA") => consec = ALERT_AT
    /\ (pc2 = "loop" /\ consec = ALERT_AT) => HasLine(log2, "ALERTA")
    /\ pc2 = "reset" <=> consec = RECOVER_AT
    /\ consec <= RECOVER_AT

\* the 5th consecutive timeout: the recovery is about to run
C8_Witness == pc2 = "reset" /\ consec = 5 /\ ~HasLine(log2, "ALERTA")

\* C9: between iterations timeout is the number of timeouts since the last
\* success or recovery, is 0 after a success or a recovery, and is in 0..4.
C9_RetryCounter ==
    pc2 \in {"loop", "recv"} =>
        /\ timeout = consec
        /\ timeout \in 0..(RECOVER_AT - 1)
        /\ (okSignals > 0 \/ HasLine(log2, "RECUPERACAO")) => timeout = 0

\* the iteration that ran the recovery has ended
C9_Witness == pc2 = "loop" /\ HasLine(log2, "RECUPERACAO") /\ timeout = 0

\* C10: a successful receive prints exactly one RX line with the item's id
\* and valor and signals BIT_TASK2_OK exactly once, whether or not the
\* working copy could be allocated.
C10_OneRxPerReceive ==
    /\ pc2 = "free_orig" =>
          log2 = <<Line("RX", mem[dados_recebidos].valor,
                        mem[dados_recebidos].id)>>
    /\ (pc2 = "loop" /\ log2 # <<>> /\ log2[1].tag # "FILA") =>
          okSignals = 1

\* C11: every item and every working copy is destroyed exactly once: no
\* allocated block is left without an owner that will still destroy it, no
\* block is freed twice, a rejected item is freed by Task1 in the cycle that
\* created it, a received item is freed by Task2 in the cycle that received
\* it, and the working copy is freed before the original.
C11_DestroyedExactlyOnce ==
    /\ live \subseteq Owned
    /\ 2 \notin uaf
    /\ (sendRes = "full" /\ pc1 \in {"wdt", "delay"}) =>
          /\ 1 \notin uaf
          /\ dados = NULL
    /\ pc2 = "free_orig" =>
          /\ tmp \notin live
          /\ dados_recebidos \in live
    /\ (recvRes = "ok" /\ pc2 \in {"signal", "loop"}) =>
          /\ dados_recebidos = NULL
          /\ tmp \notin live

\* the step sets bit b in the event group (or hands it to the blocked Task3)
Signalled(b) == b \in (flags' \cup bits') \ (flags \cup bits)

\* C12: BIT_TASK1_OK is set only by Task1, in a cycle whose xQueueSend
\* succeeded (never on a drop or a failed allocation); BIT_TASK2_OK is set
\* only by Task2, in a cycle whose xQueueReceive succeeded (never on a
\* timeout, an alert or a recovery).
C12_SignalOnlyOnSuccess ==
    [][/\ Signalled(BIT_TASK1_OK) => txSignals' = txSignals + 1
       /\ txSignals' > txSignals => sendRes = "ok" /\ pc1 = "signal"
       /\ Signalled(BIT_TASK2_OK) => okSignals' = okSignals + 1
       /\ okSignals' > okSignals => recvRes = "ok" /\ pc2 = "signal"
       /\ sendRes' # "ok" => txSignals' = 0
       /\ recvRes' # "ok" => okSignals' = 0]_vars

\* Task1 dropped an item and Task2 timed out, neither bit was set; before
\* that Task2 had received an item
C12_Witness ==
    /\ pc1 = "wdt" /\ sendRes = "full"
    /\ pc2 = "loop" /\ recvRes = "timeout"
    /\ lastRecv = 1
    /\ flags = {} /\ pc3 = "waiting"

\* the classification the Supervisor owes to each returned bit set
C13_Table ==
    ({BIT_TASK1_OK, BIT_TASK2_OK} :> "SUP_OK")
    @@ ({BIT_TASK1_OK} :> "SUP_TASK1")
    @@ ({BIT_TASK2_OK} :> "SUP_TASK2")
    @@ ({} :> "FALHA")

\* C13: the line Task3 prints depends on the returned bits alone: both bits
\* give "Sistema OK", BIT_TASK1_OK alone "only Task1", BIT_TASK2_OK alone
\* "only Task2", no bit "FALHA"; each Task3 cycle prints exactly one line.
C13_Classification ==
    [][/\ (pc3 = "classify" /\ pc3' # "classify") =>
             log3' = <<Line(C13_Table[bits], 0, 0)>>
       /\ pc3' = pc3 => log3' = log3
       /\ pc3 # "classify" => log3' \in {log3, <<>>}
       /\ pc3' = "delay" <=> Len(log3') = 1]_vars

\* both bits were returned and "Sistema OK" was printed
C13_Witness ==
    pc3 = "delay" /\ log3 = <<Line("SUP_OK", 0, 0)>> /\ fed[3]

\* the bits of the event group as the step leaves them, before Task3 (if
\* the step wakes it) clears what it takes
AfterSet == IF pc3 = "waiting" /\ pc3' = "classify" THEN bits' ELSE flags'

\* C14: setting one bit leaves the other as it was, under every
\* interleaving; when only Task1 signalled since the last observation, the
\* next observation returns BIT_TASK1_OK alone and Task3 reports Task1 only.
C14_FlagsIndependent ==
    [][/\ (pc1 = "signal" /\ pc1' # "signal") =>
             /\ BIT_TASK1_OK \in AfterSet
             /\ BIT_TASK2_OK \in AfterSet <=> BIT_TASK2_OK \in flags
       /\ (pc2 = "signal" /\ pc2' # "signal") =>
             /\ BIT_TASK2_OK \in AfterSet
             /\ BIT_TASK1_OK \in AfterSet <=> BIT_TASK1_OK \in flags
       /\ (pc3 = "classify" /\ pc3' # "classify"
              /\ expected = {BIT_TASK1_OK}) =>
             /\ bits = {BIT_TASK1_OK}
             /\ log3' = <<Line("SUP_TASK1", 0, 0)>>]_vars

\* Task2 signalled, the bit was observed; then Task1 alone signalled while
\* Task2 timed out, and Task3 reported Task1 only
C14_Witness ==
    /\ pc3 = "delay" /\ log3 = <<Line("SUP_TASK1", 0, 0)>>
    /\ lastRecv = 1 /\ lastSent = 2
    /\ recvRes = "timeout"
    /\ flags = {}

\* C15: the ids Task2 receives are strictly increasing, and each is the id
\* of the item the queue accepted last: no id is received twice or out of
\* order; an item the queue rejected is freed, never sent again and never
\* received.
C15_ReceivedInOrder ==
    [][/\ (pc2 = "recv" /\ pc2' = "malloc") =>
             /\ mem[Head(fila)].id > lastRecv
             /\ mem[Head(fila)].id = lastSent
             /\ mem[Head(fila)].id # lastDrop
             /\ dados_recebidos' = Head(fila)
       /\ (pc1 = "send" /\ pc1' = "signal") =>
             /\ mem[dados].id > lastSent
             /\ mem[dados].id > lastDrop
       /\ (pc1 = "send" /\ pc1' = "drop") =>
             /\ mem[dados].id > lastSent
             /\ \A i \in 1..Len(fila') : fila'[i] # dados
       /\ (pc1 = "drop" /\ pc1' # "drop") =>
             /\ pc1' = "wdt"
             /\ dados \notin live']_vars

\* item 1 was received, item 2 was rejected, item 3 has just been received
C15_Witness ==
    pc2 = "malloc" /\ lastRecv = 3 /\ lastDrop = 2 /\ recvRes = "ok"

\* C16: the queue holds no item or one item in every reachable state.
C16_Occupancy == Len(fila) \in 0..QUEUE_LENGTH

\* a send has met the full queue, which still holds its one item
C16_Witness == Len(fila) = QUEUE_LENGTH /\ sendRes = "full" /\ pc1 = "wdt"

\* no task has taken a step
TasksNotStarted ==
    /\ pc1 = "malloc" /\ seq = 1 /\ created = 0 /\ log1 = <<>>
    /\ pc2 = "recv" /\ timeout = 0 /\ consec = 0 /\ log2 = <<>>
    /\ pc3 = "waitbits" /\ log3 = <<>>
    /\ fila = <<>> /\ flags = {} /\ live = {}
    /\ \A t \in Tasks : ~fed[t]

\* C17: when xQueueCreate or xEventGroupCreate fails, app_main restarts the
\* device and no task is created or runs; the tasks run only while both
\* the queue and the event group exist.
C17_StartupFailure ==
    /\ boot = "running" => hFila /\ hEvent
    /\ boot = "restart" => ~(hFila /\ hEvent)
    /\ boot # "running" => TasksNotStarted
    /\ ~TasksNotStarted => hFila /\ hEvent

\* the queue was created, the event group was not: the device restarts
C17_Witness == boot = "restart" /\ hFila /\ ~hEvent /\ TasksNotStarted

\* a step of Task3 alone
SupervisorStep == pc3' # pc3 /\ pc1' = pc1 /\ pc2' = pc2

\* C18: Task3 only observes: none of its steps changes the queue, the heap,
\* Task1's seq or Task2's timeout, and all it does to the event group is
\* clear bits; the queue is emptied without a receive only by Task2's
\* xQueueReset, in a cycle whose xQueueReceive timed out.
C18_SupervisorObserves ==
    [][/\ SupervisorStep =>
             /\ UNCHANGED <<fila, mem, live, seq, dados, timeout>>
             /\ UNCHANGED <<dados_recebidos, tmp, t1vars, t2vars>>
             /\ flags' \subseteq flags
       /\ (fila # <<>> /\ fila' = <<>>
              /\ dados_recebidos' = dados_recebidos) =>
             pc2 = "reset" /\ recvRes = "timeout"
       /\ (HasLine(log2', "RECUPERACAO")
              /\ ~HasLine(log2, "RECUPERACAO")) =>
             /\ pc2 = "reset" /\ recvRes = "timeout"
             /\ pc3' = pc3 /\ pc1' = pc1
             /\ fila' = <<>>]_vars

\* Task3 found both bits clear and printed FALHA while the queue held an
\* item and Task2 had timed out 4 times: queue and timeout are untouched
C18_Witness ==
    /\ pc3 = "delay" /\ log3 = <<Line("FALHA", 0, 0)>>
    /\ Len(fila) = 1 /\ timeout = 4

\* C19: no task blocks forever: once the tasks run, each of the three loops
\* keeps completing iterations (it reaches the end of its cycle and starts
\* the next one, again and again), whatever the other two tasks do.
C19_LoopsProgress ==
    /\ []<>(boot = "running" => pc1 = "delay")
    /\ []<>(boot = "running" => pc1 = "malloc")
    /\ []<>(boot = "running" => pc2 = "loop")
    /\ []<>(boot = "running" => pc2 = "recv")
    /\ []<>(boot = "running" => pc3 = "delay")
    /\ []<>(boot = "running" => pc3 = "waitbits")

\* Task3 blocked in xEventGroupWaitBits while Task1 cannot allocate and
\* Task2 keeps timing out: nobody will set a bit
C19_Witness ==
    /\ pc3 = "waiting" /\ flags = {}
    /\ pc1 = "delay" /\ log1 = <<Line("ERRO", 0, 0)>>
    /\ pc2 = "loop" /\ recvRes = "timeout" /\ timeout = 2

\* C20: backpressure is transient: with Task1 and Task2 weakly fair, a full
\* queue is emptied again (the queue is empty again and again), and if
\* Task1's allocation succeeds again and again then xQueueSend succeeds
\* again and again and xQueueReceive succeeds again and again.
C20_BackpressureTransient ==
    /\ []<>(fila = <<>>)
    /\ []<>(pc1 = "send") =>
          /\ []<>(pc1 = "signal" /\ sendRes = "ok")
          /\ []<>(pc2 = "malloc" /\ recvRes = "ok")

\* item 1 is being processed by Task2, item 2 is queued, a further item has
\* just been rejected
C20_Witness ==
    /\ pc1 = "drop" /\ Len(fila) = QUEUE_LENGTH
    /\ lastSent = 2 /\ lastRecv = 1
    /\ pc2 = "free_orig" /\ recvRes = "ok"

====
